---- MODULE Spec2Model ----
(***************************************************************************)
(* A model of the chat pipeline of the financial assistant:                *)
(*   - ChatPage.handleSendMessage   (src/components/document-upload.tsx)   *)
(*   - POST and retryWithBackoff    (src/app/api/chat/route.ts)            *)
(*   - DocumentUpload               (src/unnamed/part_000)                 *)
(* Strings are TLA+ strings; includes(), trim() and concatenation are      *)
(* computed on their characters.  The module language is ASCII, so the     *)
(* pictographs of the source texts are written by name (Glyph...).         *)
(* A handler runs from the latest render: the `messages` its closure binds  *)
(* is the log as it stood when the handler was invoked.  Invocations of    *)
(* handleSendMessage may overlap: the handler itself has no guard.         *)
(* A POST invocation holds its locals until its response is delivered.     *)
(***************************************************************************)
EXTENDS Integers, Sequences, FiniteSets, TLC

VARIABLES
    messages,          \* ChatPage state: the conversation log
    isLoading,         \* ChatPage state: the loading flag
    call,              \* one record per invocation of handleSendMessage
    request,           \* the body of the fetch of each invocation, once sent
    post,              \* one record per POST invocation (with its retryWithBackoff frame)
    apiKeyConfigured,  \* process.env.GEMINI_API_KEY is set
    uploaded,          \* DocumentUpload state: `documents`
    isProcessing,      \* DocumentUpload state: the processing flag
    batch,             \* one record per invocation of handleFiles
    attached           \* the list the parent holds from onDocumentsChange

captureVars == <<uploaded, isProcessing, batch, attached>>

vars == <<messages, isLoading, call, request, post, apiKeyConfigured,
          uploaded, isProcessing, batch, attached>>

(***************************************************************************)
(* Bounds                                                                  *)
(***************************************************************************)
MaxSends == 2          \* invocations of handleSendMessage in one session
MaxRetriesBound == 3   \* largest maxRetries handed to retryWithBackoff on its own
MaxLog == 3            \* longest log of a request body handed to POST on its own
MaxDocs == 2           \* longest document list of a request body handed to POST on its own
MaxBatches == 2        \* invocations of handleFiles in one session
MaxFiles == 2          \* most files in one FileList

Sends == 1..MaxSends

(***************************************************************************)
(* String primitives                                                       *)
(***************************************************************************)
\* String.prototype.includes: a case-sensitive search for a contiguous run
Includes(h, n) ==
    \E p \in 1..(Len(h) - Len(n) + 1) : SubSeq(h, p, p + Len(n) - 1) = n

WhiteSpace == {" ", "\n", "\t", "\r"}

RECURSIVE TrimStart(_)
TrimStart(s) ==
    IF Len(s) > 0 /\ SubSeq(s, 1, 1) \in WhiteSpace
    THEN TrimStart(SubSeq(s, 2, Len(s)))
    ELSE s

RECURSIVE TrimEnd(_)
TrimEnd(s) ==
    IF Len(s) > 0 /\ SubSeq(s, Len(s), Len(s)) \in WhiteSpace
    THEN TrimEnd(SubSeq(s, 1, Len(s) - 1))
    ELSE s

\* String.prototype.trim
Trim(s) == TrimEnd(TrimStart(s))

\* Array.prototype.join
RECURSIVE Join(_, _)
Join(strs, sep) ==
    IF Len(strs) = 0 THEN ""
    ELSE IF Len(strs) = 1 THEN strs[1]
    ELSE strs[1] \o sep \o Join(Tail(strs), sep)

\* Math.pow(2, n) for a loop index n
RECURSIVE Pow2(_)
Pow2(n) == IF n <= 0 THEN 1 ELSE 2 * Pow2(n - 1)

GlyphClip == "[paperclip]"
GlyphPage == "[page]"
GlyphHourglass == "[hourglass]"
GlyphKey == "[key]"
Rule == "~~~~~~~~~~~~~~~~~~~~~~~~~~~~~~~~~~"

(***************************************************************************)
(* Data                                                                    *)
(***************************************************************************)
WelcomeText ==
    "Hello! I'm your Financial Assistant. I can help you with financial questions, investment advice, budgeting tips, and more. You can also upload financial documents like bank statements, tax returns, or investment statements to analyze them together. What would you like to know?"

\* the seeded log of ChatPage; `by` is the identity of the turn: the
\* invocation of handleSendMessage that created it, 0 for the seed
Welcome == [role |-> "assistant", content |-> WelcomeText, by |-> 0]

\* texts typed by the user
Texts == {" \n", "What's my balance?"}

Doc1 == [id |-> "d1", name |-> "statement.txt", size |-> 13,
         type |-> "text/plain", content |-> "Balance: $500"]
Doc2 == [id |-> "d2", name |-> "budget.csv", size |-> 18,
         type |-> "text/csv", content |-> "rent,1200\nfood,300"]
Docs == {Doc1, Doc2}

\* the document lists attached in the page
UiDocLists == {<<>>, <<Doc1, Doc2>>}

\* what chat.sendMessage can do: resolve with a text, or throw an Error
ReplyTexts == {"", "Your balance is $500."}
ErrTooManyRequests ==
    "[429 Too Many Requests] Resource has been exhausted (e.g. check quota)."
ErrQuota == "You exceeded your current quota, please check your plan and billing details."
ErrApiKey == "[400 Bad Request] API key not valid. Please pass a valid API key."
ErrUnavailable == "[503 Service Unavailable] The model is overloaded."
ErrorTexts == {ErrTooManyRequests, ErrQuota, ErrApiKey, ErrUnavailable}

Outcomes == [ok : {TRUE}, text : ReplyTexts] \cup [ok : {FALSE}, text : ErrorTexts]

\* a thrown value: an Error with its message, or null
NullError == [isError |-> FALSE, message |-> "null"]
ErrorOf(m) == [isError |-> TRUE, message |-> m]

\* Response.json(body, {status})
NoResponse == [status |-> 0, body |-> [none |-> TRUE]]
JsonResponse(b, s) == [status |-> s, body |-> b]

(***************************************************************************)
(* POST: the assembly of the prompt (route.ts)                             *)
(***************************************************************************)
\* a loop that writes each payload above its FILE line
RECURSIVE DocumentBlocksPayloadFirst(_)
DocumentBlocksPayloadFirst(documents) ==
    IF documents = <<>> THEN ""
    ELSE LET doc == Head(documents) IN
         doc.content
         \o "\n\n"
         \o Rule \o "\n"
         \o GlyphPage \o " FILE: " \o doc.name \o "\n"
         \o Rule \o "\n\n"
         \o DocumentBlocksPayloadFirst(Tail(documents))

\* the loop over body.documents: one block per document, in array order
RECURSIVE DocumentBlocks(_)
DocumentBlocks(documents) ==
    IF documents = <<>> THEN ""
    ELSE LET doc == Head(documents) IN
         Rule \o "\n"
         \o GlyphPage \o " FILE: " \o doc.name \o "\n"
         \o Rule \o "\n\n"
         \o doc.content
         \o "\n\n"
         \o DocumentBlocks(Tail(documents))

\* enhancedUserMessage
EnhancedUserMessage(userMessage, documents) ==
    IF Len(documents) > 0
    THEN userMessage
         \o "\n\n" \o GlyphClip \o " ATTACHED DOCUMENTS:\n\n"
         \o DocumentBlocks(documents)
         \o Rule \o "\n\n"
         \o "Please analyze the above document(s) and answer this question:\n"
         \o userMessage
    ELSE userMessage

\* a filter that keeps the welcome message
KeepWelcome(msgs, index) == msgs

\* Array.prototype.filter((msg, index) => index > 0), from the 0-based index
RECURSIVE SkipWelcome(_, _)
SkipWelcome(msgs, index) ==
    IF msgs = <<>> THEN <<>>
    ELSE (IF index > 0 THEN <<Head(msgs)>> ELSE <<>>)
         \o SkipWelcome(Tail(msgs), index + 1)

\* a mapping that forgets to rename the assistant
ModelRoleUnmapped(role) == role

\* msg.role === "user" ? "user" : "model"
ModelRole(role) == IF role = "user" THEN "user" ELSE "model"

\* conversationHistory
ConversationHistory(msgs) ==
    LET kept == SkipWelcome(msgs, 0) IN
    [k \in 1..Len(kept) |->
        [role |-> ModelRole(kept[k].role), parts |-> <<[text |-> kept[k].content]>>]]

\* model.startChat: with the history only when there is one
StartChat(conversationHistory) ==
    IF Len(conversationHistory) > 0
    THEN [history |-> conversationHistory, maxOutputTokens |-> 2048]
    ELSE [maxOutputTokens |-> 2048]

(***************************************************************************)
(* retryWithBackoff (route.ts)                                             *)
(***************************************************************************)
PostMaxRetries == 2
PostBaseDelay == 2000
BaseDelays == {1, 1000, PostBaseDelay}

\* a catch block that retries whatever Error it caught
IsRateLimitErrorAnyError(error) == error.isError

\* the test of the catch block: a rate limit error
IsRateLimitError(error) == error.isError /\ Includes(error.message, "429")

\* a delay that grows by baseDelay each time instead of doubling
BackoffDelayLinear(baseDelay, attempt) == baseDelay * (attempt + 1)

\* delay = baseDelay * Math.pow(2, attempt)
BackoffDelay(baseDelay, attempt) == baseDelay * Pow2(attempt)

\* a loop that forgets the error it caught: falling out throws null
LoopTestThrowsNull(p) ==
    IF p.attempt < p.maxRetries
    THEN [p EXCEPT !.pc = "call"]
    ELSE [p EXCEPT !.pc = "thrown", !.thrown = NullError]

\* the head of the for loop; falling out of the loop throws lastError
LoopTest(p) ==
    IF p.attempt < p.maxRetries
    THEN [p EXCEPT !.pc = "call"]
    ELSE [p EXCEPT !.pc = "thrown", !.thrown = p.lastError]

PostIdle ==
    [pc |-> "none",
     body |-> [none |-> TRUE],
     assembled |-> FALSE,
     enhancedUserMessage |-> "",
     conversationHistory |-> <<>>,
     chat |-> [none |-> TRUE],
     maxRetries |-> 0,
     baseDelay |-> 0,
     attempt |-> 0,
     lastError |-> NullError,
     outcomes |-> <<>>,
     sleeps |-> <<>>,
     result |-> "",
     thrown |-> NullError,
     response |-> NoResponse]

\* retryWithBackoff(fn, maxRetries, baseDelay) entered
EnterRetry(p, maxRetries, baseDelay) ==
    LoopTest([p EXCEPT !.maxRetries = maxRetries, !.baseDelay = baseDelay,
                       !.attempt = 0, !.lastError = NullError])

\* a dispatcher whose attempt index is shared by all dispatches under way
AfterAttemptSharedIndex(p, o) ==
    LET q == [p EXCEPT !.outcomes = Append(@, o)]
        indexes == {post[j].attempt : j \in DOMAIN post}
        shared == CHOOSE a \in indexes : \A b \in indexes : a >= b
    IN
    IF o.ok
    THEN [q EXCEPT !.pc = "returned", !.result = o.text]
    ELSE LET error == ErrorOf(o.text) IN
         IF IsRateLimitError(error)
         THEN [q EXCEPT !.lastError = error,
                        !.sleeps = Append(@, BackoffDelay(p.baseDelay, shared)),
                        !.pc = "sleep"]
         ELSE [q EXCEPT !.lastError = error, !.pc = "thrown", !.thrown = error]

\* one pass of the loop body: await fn(), then return, sleep or throw
AfterAttempt(p, o) ==
    LET q == [p EXCEPT !.outcomes = Append(@, o)] IN
    IF o.ok
    THEN [q EXCEPT !.pc = "returned", !.result = o.text]
    ELSE LET error == ErrorOf(o.text) IN
         IF IsRateLimitError(error)
         THEN [q EXCEPT !.lastError = error,
                        !.sleeps = Append(@, BackoffDelay(p.baseDelay, p.attempt)),
                        !.pc = "sleep"]
         ELSE [q EXCEPT !.lastError = error, !.pc = "thrown", !.thrown = error]

Attempt(i) ==
    /\ post[i].pc = "call"
    /\ \E o \in Outcomes : post' = [post EXCEPT ![i] = AfterAttempt(post[i], o)]
    /\ UNCHANGED <<messages, isLoading, call, request, apiKeyConfigured>>
    /\ UNCHANGED captureVars

\* sleep(delay) is over: continue, attempt++
Wake(i) ==
    /\ post[i].pc = "sleep"
    /\ post' = [post EXCEPT ![i] = LoopTest([post[i] EXCEPT !.attempt = @ + 1])]
    /\ UNCHANGED <<messages, isLoading, call, request, apiKeyConfigured>>
    /\ UNCHANGED captureVars

(***************************************************************************)
(* POST: the handler (route.ts)                                            *)
(***************************************************************************)
NoRequest == [none |-> TRUE]

MissingKeyResponse ==
    JsonResponse(
        [error |-> "GEMINI_API_KEY is not configured. Please add it to your .env.local file.",
         details |-> "Create a .env.local file in your project root and add: GEMINI_API_KEY=your_key_here"],
        500)

\* the catch block of POST: the response for a thrown value
ErrorResponse(error) ==
    IF error.isError
       /\ (\/ Includes(error.message, "429")
           \/ Includes(error.message, "quota")
           \/ Includes(error.message, "rate limit"))
    THEN JsonResponse(
            [error |-> "Rate limit exceeded. The Gemini API free tier has daily/hourly limits.",
             details |-> "Please wait a moment and try again, or consider upgrading your API plan at https://ai.google.dev/pricing"],
            429)
    ELSE IF error.isError
            /\ (\/ Includes(error.message, "API_KEY_INVALID")
                \/ Includes(error.message, "API key"))
    THEN JsonResponse(
            [error |-> "Invalid Gemini API key. Please check your API key in .env.local",
             details |-> error.message],
            401)
    ELSE JsonResponse(
            [error |-> "Failed to process your request. Please try again in a moment.",
             details |-> IF error.isError THEN error.message ELSE "Unknown error"],
            500)

\* POST up to the call of retryWithBackoff; the request is taken off the wire
PostStart(i) ==
    /\ request[i] # NoRequest
    /\ post[i].pc = "none"
    /\ LET body == request[i] IN
       IF ~apiKeyConfigured
       THEN post' = [post EXCEPT ![i] =
                        [@ EXCEPT !.pc = "done", !.response = MissingKeyResponse]]
       ELSE LET history == ConversationHistory(body.messages) IN
            post' = [post EXCEPT ![i] =
                EnterRetry(
                    [@ EXCEPT !.body = body,
                              !.assembled = TRUE,
                              !.enhancedUserMessage =
                                  EnhancedUserMessage(body.userMessage, body.documents),
                              !.conversationHistory = history,
                              !.chat = StartChat(history)],
                    PostMaxRetries, PostBaseDelay)]
    /\ request' = [request EXCEPT ![i] = NoRequest]
    /\ UNCHANGED <<messages, isLoading, call, apiKeyConfigured>>
    /\ UNCHANGED captureVars

\* POST after retryWithBackoff: the reply, or the catch block
Respond(i) ==
    /\ post[i].pc \in {"returned", "thrown"}
    /\ post[i].assembled
    /\ post' = [post EXCEPT ![i] =
                  [@ EXCEPT !.pc = "done",
                            !.response =
                                IF post[i].pc = "returned"
                                THEN JsonResponse([reply |-> post[i].result], 200)
                                ELSE ErrorResponse(post[i].thrown)]]
    /\ UNCHANGED <<messages, isLoading, call, request, apiKeyConfigured>>
    /\ UNCHANGED captureVars

(***************************************************************************)
(* ChatPage.handleSendMessage (document-upload.tsx)                        *)
(***************************************************************************)
CallIdle == [pc |-> "idle", content |-> "", documents |-> <<>>, response |-> NoResponse]

\* messageContent: the text shown for the user turn
MessageContent(content, documents) ==
    IF Len(documents) > 0
    THEN content \o "\n\n" \o GlyphClip \o " Attached: "
         \o Join([k \in 1..Len(documents) |-> documents[k].name], ", ")
    ELSE content

\* documentsForAPI
DocumentsForAPI(documents) ==
    [k \in 1..Len(documents) |->
        [id |-> documents[k].id, name |-> documents[k].name, size |-> documents[k].size,
         type |-> documents[k].type, content |-> documents[k].content]]

\* a body built from the log with the new user turn already in it
RequestBodyWithOwnTurn(msgs, content, documents) ==
    [messages |->
        [k \in 1..(Len(msgs) + 1) |->
            IF k <= Len(msgs)
            THEN [role |-> msgs[k].role, content |-> msgs[k].content]
            ELSE [role |-> "user", content |-> MessageContent(content, documents)]],
     userMessage |-> content,
     documents |-> DocumentsForAPI(documents)]

\* the body of the fetch: `messages` is the value bound in the handler's closure,
\* the log as rendered before this invocation appended to it
RequestBody(msgs, content, documents) ==
    [messages |-> [k \in 1..Len(msgs) |-> [role |-> msgs[k].role, content |-> msgs[k].content]],
     userMessage |-> content,
     documents |-> DocumentsForAPI(documents)]

RateLimitNotice ==
    GlyphHourglass \o " Rate limit reached. The Gemini API has usage limits. Please wait a minute and try again, or check your API quota at https://ai.google.dev/gemini-api/docs/rate-limits"
ApiKeyNotice ==
    GlyphKey \o " API key issue. Please check that your GEMINI_API_KEY is correctly set in your .env.local file."
UnexpectedNotice == "Sorry, I encountered an unexpected error. Please try again."
GenericPrefix == "Sorry, I encountered an error: "

\* errorContent of the catch block
ErrorContent(error) ==
    IF ~error.isError THEN UnexpectedNotice
    ELSE IF \/ Includes(error.message, "429")
            \/ Includes(error.message, "rate limit")
            \/ Includes(error.message, "quota")
    THEN RateLimitNotice
    ELSE IF Includes(error.message, "API key") \/ Includes(error.message, "401")
    THEN ApiKeyNotice
    ELSE GenericPrefix \o error.message

\* a test that takes only a missing field for falsy
FalsyOnlyMissing(body, field) == field \notin DOMAIN body

\* a JSON field that is missing or the empty string is falsy
Falsy(body, field) == field \notin DOMAIN body \/ body[field] = ""

\* the value thrown inside the try block for a response, NullError if none is
ThrownFor(response) ==
    IF ~(response.status >= 200 /\ response.status <= 299)
    THEN ErrorOf(IF Falsy(response.body, "error")
                 THEN "HTTP error! status: " \o ToString(response.status)
                 ELSE response.body.error)
    ELSE IF Falsy(response.body, "reply")
    THEN ErrorOf("No reply received from API")
    ELSE NullError

\* a try block that returns on a missing reply instead of throwing
SettledTurnsSkipsMissingReply(i, response) ==
    LET error == ThrownFor(response) IN
    IF error = NullError
    THEN <<[role |-> "assistant", content |-> response.body.reply, by |-> i]>>
    ELSE IF error.message = "No reply received from API" THEN <<>>
    ELSE <<[role |-> "assistant", content |-> ErrorContent(error), by |-> i]>>

\* the turns the try/catch appends once the fetch has settled
SettledTurns(i, response) ==
    LET error == ThrownFor(response) IN
    IF error = NullError
    THEN <<[role |-> "assistant", content |-> response.body.reply, by |-> i]>>
    ELSE <<[role |-> "assistant", content |-> ErrorContent(error), by |-> i]>>

\* a catch block that logs the rejection and appends nothing
RejectedTurnsNone(i) == <<>>

\* the turns the catch block appends when fetch itself rejects
RejectedTurns(i) ==
    <<[role |-> "assistant", content |-> ErrorContent(ErrorOf("Failed to fetch")), by |-> i]>>

\* an updater that puts the new turns in front of the log
SetMessagesInFront(prev, turns) == turns \o prev

\* setMessages((prev) => [...prev, turn])
SetMessages(prev, turns) == prev \o turns

\* handleSendMessage up to its await of fetch
HandleSendMessage(i, content, documents) ==
    /\ call[i].pc = "idle"
    /\ IF i = 1 THEN TRUE ELSE call[i - 1].pc # "idle"
    /\ IF Trim(content) = ""
       THEN /\ call' = [call EXCEPT ![i] =
                          [@ EXCEPT !.pc = "done", !.content = content,
                                    !.documents = documents]]
            /\ UNCHANGED <<messages, isLoading, request>>
       ELSE /\ messages' = SetMessages(messages,
                              <<[role |-> "user",
                                 content |-> MessageContent(content, documents),
                                 by |-> i]>>)
            /\ isLoading' = TRUE
            /\ request' = [request EXCEPT ![i] = RequestBody(messages, content, documents)]
            /\ call' = [call EXCEPT ![i] =
                          [@ EXCEPT !.pc = "fetch", !.content = content,
                                    !.documents = documents]]
    /\ UNCHANGED <<post, apiKeyConfigured>>

\* handleSendMessage invoked with a text and a document list
SendMessage(i, content, documents) ==
    /\ HandleSendMessage(i, content, documents)
    /\ UNCHANGED captureVars

\* a page that clears the flag at the end of try, with no finally block
LoadingAfterWithoutFinally(error) == error # NullError

\* finally { setIsLoading(false) }: whatever the try block threw
LoadingAfter(error) == FALSE

\* the frame of a POST invocation whose response has left the server
PostClosed == [PostIdle EXCEPT !.pc = "closed"]

\* the fetch resolved with POST's response: the rest of try, catch and finally
Receive(i) ==
    /\ call[i].pc = "fetch"
    /\ post[i].pc = "done"
    /\ messages' = SetMessages(messages, SettledTurns(i, post[i].response))
    /\ isLoading' = LoadingAfter(ThrownFor(post[i].response))
    /\ call' = [call EXCEPT ![i].pc = "done", ![i].response = post[i].response]
    /\ post' = [post EXCEPT ![i] = PostClosed]
    /\ UNCHANGED <<request, apiKeyConfigured>>
    /\ UNCHANGED captureVars

\* the fetch rejected (the request or the response was lost): catch and finally
FetchFails(i) ==
    /\ call[i].pc = "fetch"
    /\ post[i].pc \in {"none", "done"}
    /\ post[i].pc = "none" => request[i] # NoRequest
    /\ messages' = SetMessages(messages, RejectedTurns(i))
    /\ isLoading' = LoadingAfter(ErrorOf("Failed to fetch"))
    /\ call' = [call EXCEPT ![i].pc = "done"]
    /\ request' = [request EXCEPT ![i] = NoRequest]
    /\ post' = [post EXCEPT ![i] = PostClosed]
    /\ UNCHANGED apiKeyConfigured
    /\ UNCHANGED captureVars

(***************************************************************************)
(* DocumentUpload (part_000)                                               *)
(***************************************************************************)
Batches == 1..MaxBatches

\* the characters of the codes 32..126 (an apostrophe stands at code 96)
AsciiTable ==
    " !\"#$%&'()*+,-./0123456789:;<=>?@ABCDEFGHIJKLMNOPQRSTUVWXYZ[\\]^_'abcdefghijklmnopqrstuvwxyz{|}~"

Chr(code) == IF code = 10 THEN "\n" ELSE SubSeq(AsciiTable, code - 31, code - 31)

\* FileReader.readAsText: the bytes decoded as text
RECURSIVE ReadAsText(_)
ReadAsText(bytes) ==
    IF bytes = <<>> THEN "" ELSE Chr(Head(bytes)) \o ReadAsText(Tail(bytes))

\* the files the user can pick or drop
FileTxt == [name |-> "statement.txt", size |-> 13, type |-> "text/plain",
            bytes |-> <<66, 97, 108, 97, 110, 99, 101, 58, 32, 36, 53, 48, 48>>]
FilePdf == [name |-> "report.pdf", size |-> 4, type |-> "application/pdf",
            bytes |-> <<37, 80, 68, 70>>]
Files == {FileTxt, FilePdf}

\* the FileLists handed to handleFiles: the first n files of a selection in
\* which binary and text files alternate
FileLists ==
    {[k \in 1..n |-> IF k % 2 = 1 THEN FilePdf ELSE FileTxt] : n \in 1..MaxFiles}

\* readFileContent resolved: reader.readAsText(file), whatever the file
ReadFileContent(file) == ReadAsText(file.bytes)

NullDoc == [null |-> TRUE]
Pending == [state |-> "pending", content |-> ""]
Loaded(content) == [state |-> "loaded", content |-> content]
Rejected == [state |-> "failed", content |-> ""]

BatchIdle == [pc |-> "idle", files |-> <<>>, reads |-> <<>>, closure |-> <<>>]

\* the frame of an invocation of handleFiles that has returned
BatchDone == [BatchIdle EXCEPT !.pc = "done"]

\* Date.now().toString() + Math.random(): a token no other document has
NewId(b, k) == "f" \o ToString(b) \o "-" \o ToString(k)

\* the value of one mapped promise: the document, or null for a failed read
NewDoc(b, k) ==
    LET file == batch[b].files[k] IN
    IF batch[b].reads[k].state = "loaded"
    THEN [id |-> NewId(b, k), name |-> file.name, size |-> file.size,
          type |-> file.type, content |-> batch[b].reads[k].content, file |-> file]
    ELSE NullDoc

\* a Promise.all that rejects as soon as one read has failed
ValidDocsAllOrNothing(newDocs) ==
    IF \E k \in 1..Len(newDocs) : newDocs[k] = NullDoc THEN <<>> ELSE newDocs

\* newDocs.filter(doc => doc !== null)
ValidDocs(newDocs) == SelectSeq(newDocs, LAMBDA doc : doc # NullDoc)

\* the disabled prop: ChatPage hands isLoading down
Disabled == isLoading

\* handleFiles up to its await: the closure binds the current documents
HandleFiles(b, files) ==
    /\ batch[b].pc = "idle"
    /\ IF b = 1 THEN TRUE ELSE batch[b - 1].pc # "idle"
    /\ isProcessing' = TRUE
    /\ batch' = [batch EXCEPT ![b] =
                    [pc |-> "reading", files |-> files,
                     reads |-> [k \in 1..Len(files) |-> Pending],
                     closure |-> uploaded]]
    /\ UNCHANGED <<uploaded, attached>>
    /\ UNCHANGED <<messages, isLoading, call, request, post, apiKeyConfigured>>

\* files dropped on the zone
HandleDrop(b, files) ==
    /\ ~Disabled
    /\ HandleFiles(b, files)

\* files picked in the input, which is disabled while a batch is processed
HandleChange(b, files) ==
    /\ ~(Disabled \/ isProcessing)
    /\ HandleFiles(b, files)

\* reader.onload (ok) or reader.onerror of file k of batch b
ReadSettles(b, k, ok) ==
    /\ batch[b].pc = "reading"
    /\ k \in 1..Len(batch[b].files)
    /\ batch[b].reads[k] = Pending
    /\ batch' = [batch EXCEPT ![b].reads[k] =
                    IF ok THEN Loaded(ReadFileContent(batch[b].files[k])) ELSE Rejected]
    /\ UNCHANGED <<uploaded, isProcessing, attached>>
    /\ UNCHANGED <<messages, isLoading, call, request, post, apiKeyConfigured>>

\* Promise.all resolved: the rest of handleFiles
HandleFilesDone(b) ==
    /\ batch[b].pc = "reading"
    /\ \A k \in 1..Len(batch[b].files) : batch[b].reads[k] # Pending
    /\ LET newDocs == [k \in 1..Len(batch[b].files) |-> NewDoc(b, k)]
           updatedDocs == batch[b].closure \o ValidDocs(newDocs)
       IN  /\ uploaded' = updatedDocs
           /\ attached' = updatedDocs
           /\ batch' = [batch EXCEPT ![b] = BatchDone]
    /\ isProcessing' = FALSE
    /\ UNCHANGED <<messages, isLoading, call, request, post, apiKeyConfigured>>

\* removeDocument(id), from the button of a listed document
RemoveDocument(id) ==
    /\ ~Disabled
    /\ \E k \in 1..Len(uploaded) : uploaded[k].id = id
    /\ LET updated == SelectSeq(uploaded, LAMBDA doc : doc.id # id) IN
       /\ uploaded' = updated
       /\ attached' = updated
    /\ UNCHANGED <<isProcessing, batch>>
    /\ UNCHANGED <<messages, isLoading, call, request, post, apiKeyConfigured>>

\* the parent's submit: onSendMessage(text, the list it holds), and the list
\* is let go once sent; the page disables it while a send is outstanding
Submit(i, content) ==
    /\ ~Disabled
    /\ HandleSendMessage(i, content, attached)
    /\ attached' = <<>>
    /\ UNCHANGED <<uploaded, isProcessing, batch>>

InitCapture ==
    /\ uploaded = <<>>
    /\ isProcessing = FALSE
    /\ batch = [b \in Batches |-> BatchIdle]
    /\ attached = <<>>

(***************************************************************************)
(* The session: the page and the route                                     *)
(***************************************************************************)
Init ==
    /\ messages = <<Welcome>>
    /\ isLoading = FALSE
    /\ call = [i \in Sends |-> CallIdle]
    /\ request = [i \in Sends |-> NoRequest]
    /\ post = [i \in Sends |-> PostIdle]
    /\ apiKeyConfigured \in BOOLEAN
    /\ InitCapture

Next ==
    \/ \E i \in Sends, content \in Texts, documents \in UiDocLists :
          SendMessage(i, content, documents)
    \/ \E i \in Sends : PostStart(i)
    \/ \E i \in Sends : Attempt(i)
    \/ \E i \in Sends : Wake(i)
    \/ \E i \in Sends : Respond(i)
    \/ \E i \in Sends : Receive(i)
    \/ \E i \in Sends : FetchFails(i)

Spec == Init /\ [][Next]_vars

(***************************************************************************)
(* The session with sends issued one at a time                             *)
(***************************************************************************)
\* a send from the input, which the page disables while isLoading is true
SendWhenIdle(i, content, documents) ==
    /\ ~isLoading
    /\ SendMessage(i, content, documents)

NextSequential ==
    \/ \E i \in Sends, content \in Texts, documents \in UiDocLists :
          SendWhenIdle(i, content, documents)
    \/ \E i \in Sends : PostStart(i)
    \/ \E i \in Sends : Attempt(i)
    \/ \E i \in Sends : Wake(i)
    \/ \E i \in Sends : Respond(i)
    \/ \E i \in Sends : Receive(i)
    \/ \E i \in Sends : FetchFails(i)

SpecSequential == Init /\ [][NextSequential]_vars

(***************************************************************************)
(* The session with one text and no documents, and under fair scheduling   *)
(***************************************************************************)
NextLive ==
    \/ \E i \in Sends : SendMessage(i, "What's my balance?", <<>>)
    \/ \E i \in Sends : PostStart(i)
    \/ \E i \in Sends : Attempt(i)
    \/ \E i \in Sends : Wake(i)
    \/ \E i \in Sends : Respond(i)
    \/ \E i \in Sends : Receive(i)
    \/ \E i \in Sends : FetchFails(i)

SpecSends == Init /\ [][NextLive]_vars

\* a step of the server or of a continuation of the page
Progress ==
    \E i \in Sends :
        PostStart(i) \/ Attempt(i) \/ Wake(i) \/ Respond(i) \/ Receive(i)

\* as long as a request is on the wire, a model call is pending, a timer is
\* running or a settled await has its continuation queued, one of them runs
Fairness == WF_vars(Progress)

SpecLive == Init /\ [][NextLive]_vars /\ Fairness

(***************************************************************************)
(* retryWithBackoff on its own: any maxRetries, any baseDelay              *)
(***************************************************************************)
InitRetry ==
    /\ messages = <<Welcome>>
    /\ isLoading = FALSE
    /\ call = [i \in Sends |-> CallIdle]
    /\ request = [i \in Sends |-> NoRequest]
    /\ apiKeyConfigured = TRUE
    /\ InitCapture
    /\ \E maxRetries \in 0..MaxRetriesBound, baseDelay \in BaseDelays :
          post = [i \in Sends |->
                    IF i = 1 THEN EnterRetry(PostIdle, maxRetries, baseDelay) ELSE PostIdle]

NextRetry ==
    \/ \E i \in Sends : Attempt(i)
    \/ \E i \in Sends : Wake(i)

SpecRetry == InitRetry /\ [][NextRetry]_vars

(***************************************************************************)
(* The upload component on its own, enabled throughout                     *)
(***************************************************************************)
InitUpload ==
    /\ messages = <<Welcome>>
    /\ isLoading = FALSE
    /\ call = [i \in Sends |-> CallIdle]
    /\ request = [i \in Sends |-> NoRequest]
    /\ post = [i \in Sends |-> PostIdle]
    /\ apiKeyConfigured = TRUE
    /\ InitCapture

NextUpload ==
    \/ \E b \in Batches, files \in FileLists : HandleDrop(b, files)
    \/ \E b \in Batches, files \in FileLists : HandleChange(b, files)
    \/ \E b \in Batches, k \in 1..MaxFiles, ok \in BOOLEAN : ReadSettles(b, k, ok)
    \/ \E b \in Batches : HandleFilesDone(b)
    \/ \E k \in 1..Len(uploaded) : RemoveDocument(uploaded[k].id)

SpecUpload == InitUpload /\ [][NextUpload]_vars

(***************************************************************************)
(* The page with its upload component: capture, submit, dispatch           *)
(***************************************************************************)
InitCompose ==
    /\ messages = <<Welcome>>
    /\ isLoading = FALSE
    /\ call = [i \in Sends |-> CallIdle]
    /\ request = [i \in Sends |-> NoRequest]
    /\ post = [i \in Sends |-> PostIdle]
    /\ apiKeyConfigured = TRUE
    /\ InitCapture

NextCompose ==
    \/ \E b \in Batches : HandleDrop(b, <<FileTxt>>)
    \/ \E b \in Batches, ok \in BOOLEAN : ReadSettles(b, 1, ok)
    \/ \E b \in Batches : HandleFilesDone(b)
    \/ \E i \in Sends : Submit(i, "What's my balance?")
    \/ \E i \in Sends : PostStart(i)
    \/ \E i \in Sends : Attempt(i)
    \/ \E i \in Sends : Wake(i)
    \/ \E i \in Sends : Respond(i)
    \/ \E i \in Sends : Receive(i)
    \/ \E i \in Sends : FetchFails(i)

SpecCompose == InitCompose /\ [][NextCompose]_vars

(***************************************************************************)
(* Properties of the dispatcher                                            *)
(***************************************************************************)
\* the text of a failure carries a rate-limit or quota signal
RateLimitSignal(text) ==
    Includes(text, "429") \/ Includes(text, "quota") \/ Includes(text, "rate limit")

Failed(o) == ~o.ok
LastOutcome(p) == p.outcomes[Len(p.outcomes)]

\* C1: with maxRetries = 2 the dispatcher allows 3 attempts: after two
\* rate-limit failures the dispatch has not failed, it is waiting for or
\* making its third attempt (whose text it returns when it succeeds).
C1_ThirdAttemptAllowed ==
    \A i \in Sends :
        LET p == post[i] IN
        (/\ p.maxRetries = 2
         /\ Len(p.outcomes) = 2
         /\ \A k \in 1..2 : Failed(p.outcomes[k]) /\ Includes(p.outcomes[k].text, "429"))
        => p.pc \in {"sleep", "call"}

\* C2: when every attempt made has failed with a rate-limit error and the
\* dispatch is over, the error thrown is the last one observed, and POST
\* answers with the status-429 error body (a Response, with no reply).
C2_ExhaustedIsRateLimited ==
    \A i \in Sends :
        LET p == post[i] IN
        (/\ p.pc = "done"
         /\ Len(p.outcomes) > 0
         /\ \A k \in 1..Len(p.outcomes) :
               Failed(p.outcomes[k]) /\ RateLimitSignal(p.outcomes[k].text))
        => /\ p.thrown = ErrorOf(LastOutcome(p).text)
           /\ p.response.status = 429
           /\ DOMAIN p.response.body = {"error", "details"}

C2_Witness ==
    \E i \in Sends :
        /\ post[i].pc = "done"
        /\ Len(post[i].outcomes) = PostMaxRetries
        /\ \A k \in 1..Len(post[i].outcomes) :
              post[i].outcomes[k] = [ok |-> FALSE, text |-> ErrTooManyRequests]
        /\ post[i].response.status = 429

\* C3: the retries never exceed maxRetries, and the delay slept between
\* attempt k and attempt k+1 (k from 0) is baseDelay * 2^k.
C3_RetriesAndDelays ==
    \A i \in Sends :
        LET p == post[i]
            attempts == Len(p.outcomes)
        IN  /\ (IF attempts = 0 THEN 0 ELSE attempts - 1) <= p.maxRetries
            /\ Len(p.sleeps) >= attempts - 1
            /\ \A k \in 0..(Len(p.sleeps) - 1) : p.sleeps[k + 1] = p.baseDelay * (2 ^ k)

C3_Witness ==
    /\ post[1].maxRetries = 3
    /\ post[1].baseDelay = 1000
    /\ Len(post[1].outcomes) = 3
    /\ post[1].sleeps = <<1000, 2000, 4000>>

\* C4: a failure that is not a rate-limit error is never retried: it is the
\* last attempt, no delay is slept after it, and it is the error thrown; on
\* the first attempt the model call is made exactly once.
C4_NoRetryOfOtherErrors ==
    \A i \in Sends :
        LET p == post[i] IN
        \A k \in 1..Len(p.outcomes) :
            (Failed(p.outcomes[k]) /\ ~RateLimitSignal(p.outcomes[k].text))
            => /\ k = Len(p.outcomes)
               /\ Len(p.sleeps) = k - 1
               /\ p.pc = "thrown"
               /\ p.thrown = ErrorOf(p.outcomes[k].text)

C4_Witness ==
    /\ post[1].maxRetries >= 2
    /\ post[1].outcomes = <<[ok |-> FALSE, text |-> ErrApiKey]>>
    /\ post[1].pc = "thrown"
    /\ post[1].sleeps = <<>>

\* C5: whenever POST answers with the rate-limit response (status 429), the
\* dispatcher had retried until its allowed attempts were used up.
C5_RateLimitedWasRetried ==
    \A i \in Sends :
        (post[i].pc = "done" /\ post[i].response.status = 429)
        => Len(post[i].outcomes) = post[i].maxRetries

(***************************************************************************)
(* POST on its own: any request body                                       *)
(***************************************************************************)
SeqsUpTo(S, n) == UNION {[1..m -> S] : m \in 0..n}

LogTurns == [role : {"user", "assistant"}, content : {"Hi", "Hello"}]

Bodies ==
    [messages : SeqsUpTo(LogTurns, MaxLog),
     userMessage : Texts,
     documents : SeqsUpTo(Docs, MaxDocs)]

InitPost ==
    /\ messages = <<Welcome>>
    /\ isLoading = FALSE
    /\ call = [i \in Sends |-> CallIdle]
    /\ post = [i \in Sends |-> PostIdle]
    /\ apiKeyConfigured \in BOOLEAN
    /\ InitCapture
    /\ \E body \in Bodies :
          request = [i \in Sends |-> IF i = 1 THEN body ELSE NoRequest]

NextPost == \E i \in Sends : PostStart(i)

SpecPost == InitPost /\ [][NextPost]_vars

(***************************************************************************)
(* Properties of the conversation and of the prompt                        *)
(***************************************************************************)
\* the turns of the log created by invocation i, of one role
TurnsBy(i, role) == SelectSeq(messages, LAMBDA m : m.by = i /\ m.role = role)

NonBlank(text) == \E p \in 1..Len(text) : SubSeq(text, p, p) \notin WhiteSpace

\* C6 as stated: every finished call of handleSendMessage, for any text,
\* has appended exactly one user turn and exactly one assistant turn.
C6_OneUserOneAssistantAnyText ==
    \A i \in Sends :
        call[i].pc = "done"
        => Len(TurnsBy(i, "user")) = 1 /\ Len(TurnsBy(i, "assistant")) = 1

\* C6 amended: a finished call whose text has a non-whitespace character
\* has appended exactly one user turn and exactly one assistant turn,
\* whatever the outcome of the dispatch; a call with a blank text has
\* appended nothing; a call in flight has appended its user turn only.
C6_OneUserOneAssistant ==
    \A i \in Sends :
        /\ (call[i].pc = "done" /\ NonBlank(call[i].content))
           => Len(TurnsBy(i, "user")) = 1 /\ Len(TurnsBy(i, "assistant")) = 1
        /\ (call[i].pc = "done" /\ ~NonBlank(call[i].content))
           => Len(TurnsBy(i, "user")) = 0 /\ Len(TurnsBy(i, "assistant")) = 0
        /\ call[i].pc = "fetch"
           => Len(TurnsBy(i, "user")) = 1 /\ Len(TurnsBy(i, "assistant")) = 0

C6_Witness ==
    \E i \in Sends :
        /\ call[i].pc = "done"
        /\ call[i].response.status = 200
        /\ call[i].response.body.reply = ""
        /\ Len(call[i].documents) = 2
        /\ Len(TurnsBy(i, "assistant")) = 1

\* C7: the assistant turn of a failed dispatch is tailored to the class of
\* the server's response: 429 gives the rate-limit notice, 401 the API-key
\* notice, and only other failures the generic text.
C7_TailoredErrorText ==
    \A i \in Sends :
        (call[i].pc = "done" /\ call[i].response # NoResponse
         /\ call[i].response.status # 200)
        => LET text == TurnsBy(i, "assistant")[1].content IN
           /\ call[i].response.status = 429 => text = RateLimitNotice
           /\ call[i].response.status = 401 => text = ApiKeyNotice
           /\ call[i].response.status \notin {429, 401}
              => SubSeq(text, 1, Len(GenericPrefix)) = GenericPrefix

\* C8: whenever POST has projected a non-empty history, its first element
\* has role "user".
C8_HistoryStartsWithUser ==
    \A i \in Sends :
        (post[i].assembled /\ Len(post[i].conversationHistory) > 0)
        => post[i].conversationHistory[1].role = "user"

C8_Witness ==
    /\ call[1].pc = "done"
    /\ call[1].response.status = 429
    /\ post[2].assembled
    /\ Len(post[2].conversationHistory) = 2
    /\ post[2].conversationHistory[2].role = "model"

\* C9: the projected history is the received log without its first turn,
\* in the same order, "user" for a user turn and "model" otherwise, texts
\* unchanged; it has max(0, n-1) elements for n turns, and the chat is
\* started with a history exactly when it is not empty.
C9_HistoryProjection ==
    \A i \in Sends :
        post[i].assembled
        => LET log == post[i].body.messages
               history == post[i].conversationHistory
               n == Len(log)
           IN  /\ Len(history) = (IF n - 1 > 0 THEN n - 1 ELSE 0)
               /\ \A k \in 1..Len(history) :
                     /\ history[k].role =
                           (IF log[k + 1].role = "user" THEN "user" ELSE "model")
                     /\ history[k].parts = <<[text |-> log[k + 1].content]>>
               /\ Len(history) = 0 => "history" \notin DOMAIN post[i].chat
               /\ Len(history) > 0 => post[i].chat.history = history

C9_Witness ==
    /\ post[1].assembled
    /\ Len(post[1].body.messages) = 3
    /\ post[1].conversationHistory =
          <<[role |-> "model", parts |-> <<[text |-> "Hi"]>>],
            [role |-> "user", parts |-> <<[text |-> "Hello"]>>]>>

\* the first position at or after `from` where `needle` occurs in `text`, else 0
IndexOf(text, needle, from) ==
    LET hits == {p \in from..(Len(text) - Len(needle) + 1) :
                    SubSeq(text, p, p + Len(needle) - 1) = needle}
    IN  IF hits = {} THEN 0 ELSE CHOOSE p \in hits : \A q \in hits : p <= q

\* the needles occur in `text` one after the other, from position `from` on
RECURSIVE InOrder(_, _, _)
InOrder(text, needles, from) ==
    IF needles = <<>> THEN TRUE
    ELSE LET p == IndexOf(text, Head(needles), from) IN
         p > 0 /\ InOrder(text, Tail(needles), p + Len(Head(needles)))

\* for each document its FILE line, then its payload
RECURSIVE FileLinesAndPayloads(_)
FileLinesAndPayloads(documents) ==
    IF documents = <<>> THEN <<>>
    ELSE <<"FILE: " \o Head(documents).name \o "\n", Head(documents).content>>
         \o FileLinesAndPayloads(Tail(documents))

RepeatedQuestion(userMessage) ==
    "Please analyze the above document(s) and answer this question:\n" \o userMessage

\* C10: without documents the message is the user text; with documents it
\* is the user text, then for each document in array order its FILE line
\* and after it its payload, and at the very end the instruction line that
\* repeats the question.
C10_AssembledMessage ==
    \A i \in Sends :
        post[i].assembled
        => LET text == post[i].body.userMessage
               documents == post[i].body.documents
               message == post[i].enhancedUserMessage
               tail == RepeatedQuestion(text)
           IN  IF Len(documents) = 0
               THEN message = text
               ELSE /\ SubSeq(message, 1, Len(text)) = text
                    /\ SubSeq(message, Len(message) - Len(tail) + 1, Len(message)) = tail
                    /\ InOrder(SubSeq(message, 1, Len(message) - Len(tail)),
                               FileLinesAndPayloads(documents), Len(text) + 1)

C10_Witness ==
    /\ post[1].assembled
    /\ post[1].body.userMessage = "What's my balance?"
    /\ post[1].body.documents = <<Doc1, Doc2>>
    /\ InOrder(post[1].enhancedUserMessage,
               <<"What's my balance?", "FILE: statement.txt", "Balance: $500",
                 "FILE: budget.csv", "rent,1200", "What's my balance?">>, 1)

(***************************************************************************)
(* Properties of the upload component                                      *)
(***************************************************************************)
\* the documents of `docs` behind the ones handleFiles b started from
Captured(b, docs) == SubSeq(docs, Len(batch[b].closure) + 1, Len(docs))

\* the positions in the batch of the files whose read succeeded, ascending
LoadedPositions(b) ==
    SelectSeq([k \in 1..Len(batch[b].files) |-> k],
              LAMBDA k : batch[b].reads[k].state = "loaded")

FailedReads(b) ==
    Cardinality({k \in 1..Len(batch[b].files) : batch[b].reads[k].state = "failed"})

\* C11: the step that completes handleFiles, whichever reads failed, leaves
\* the documents it started from in place and adds after them exactly one
\* document per file whose read succeeded, in batch order; the failed
\* reads and the documents added make up the batch; and the list is
\* published to the parent.
C11_PartialSuccessBatch ==
    [][\A b \in Batches :
          (batch[b].pc = "reading" /\ batch'[b].pc = "done")
          => /\ Len(uploaded') >= Len(batch[b].closure)
             /\ SubSeq(uploaded', 1, Len(batch[b].closure)) = batch[b].closure
             /\ Len(Captured(b, uploaded')) = Len(LoadedPositions(b))
             /\ \A j \in 1..Len(LoadedPositions(b)) :
                    Captured(b, uploaded')[j].file = batch[b].files[LoadedPositions(b)[j]]
             /\ FailedReads(b) + Len(Captured(b, uploaded')) = Len(batch[b].files)
             /\ attached' = uploaded']_vars

\* a batch of two has completed: the read of its first file failed, and the
\* document of its second file is the only one captured
C11_Witness ==
    /\ batch[1].pc = "done"
    /\ batch[2].pc = "idle"
    /\ Len(uploaded) = 1
    /\ uploaded[1].id = NewId(1, 2)
    /\ uploaded[1].name = "statement.txt"

EndsWith(text, suffix) ==
    /\ Len(text) >= Len(suffix)
    /\ SubSeq(text, Len(text) - Len(suffix) + 1, Len(text)) = suffix

\* the rule for text files: by media type or by extension
TextRule(file) ==
    \/ Includes(file.type, "text")
    \/ EndsWith(file.name, ".txt")
    \/ EndsWith(file.name, ".csv")
    \/ EndsWith(file.name, ".json")

Base64Alphabet == "ABCDEFGHIJKLMNOPQRSTUVWXYZabcdefghijklmnopqrstuvwxyz0123456789+/"

Base64Char(n) == SubSeq(Base64Alphabet, n + 1, n + 1)

\* the base64 text of a whole file
RECURSIVE Base64(_)
Base64(bytes) ==
    IF bytes = <<>> THEN ""
    ELSE IF Len(bytes) = 1
    THEN Base64Char(bytes[1] \div 4) \o Base64Char((bytes[1] % 4) * 16) \o "=" \o "="
    ELSE IF Len(bytes) = 2
    THEN Base64Char(bytes[1] \div 4)
         \o Base64Char((bytes[1] % 4) * 16 + bytes[2] \div 16)
         \o Base64Char((bytes[2] % 16) * 4) \o "="
    ELSE Base64Char(bytes[1] \div 4)
         \o Base64Char((bytes[1] % 4) * 16 + bytes[2] \div 16)
         \o Base64Char((bytes[2] % 16) * 4 + bytes[3] \div 64)
         \o Base64Char(bytes[3] % 64)
         \o Base64(SubSeq(bytes, 4, Len(bytes)))

\* C12: the payload of a captured document is the text of the file exactly
\* when its media type contains "text" or its name ends in .txt, .csv or
\* .json; the payload of every other file is the base64 of the whole file.
C12_EncodingByRule ==
    \A k \in 1..Len(uploaded) :
        LET doc == uploaded[k] IN
        doc.content = IF TextRule(doc.file)
                      THEN ReadAsText(doc.file.bytes)
                      ELSE Base64(doc.file.bytes)

(***************************************************************************)
(* Properties of capture and send together                                 *)
(***************************************************************************)
DocIds(documents) == {documents[k].id : k \in 1..Len(documents)}

\* C13: a send never carries a document that an earlier send carried.
C13_NotRetainedAcrossSends ==
    \A i \in Sends, j \in Sends :
        (i < j /\ call[j].pc # "idle")
        => DocIds(call[i].documents) \cap DocIds(call[j].documents) = {}

(***************************************************************************)
(* Properties of the conversation log and of failures                      *)
(***************************************************************************)
\* C14: the welcome message is the first turn of the log in every state,
\* and every step, whatever the interleaving of the sends, keeps the turns
\* the log has, at their positions, and can only add turns at its end.
C14_AppendOnly ==
    /\ [](Len(messages) >= 1 /\ messages[1] = Welcome)
    /\ [][/\ Len(messages') >= Len(messages)
          /\ SubSeq(messages', 1, Len(messages)) = messages]_vars

\* two overlapping sends: both user turns were appended before either answer
C14_Witness ==
    /\ Len(messages) = 5
    /\ messages[2].role = "user" /\ messages[2].by = 1
    /\ messages[3].role = "user" /\ messages[3].by = 2
    /\ messages[4].role = "assistant" /\ messages[4].by = 2
    /\ messages[5].role = "assistant" /\ messages[5].by = 1

\* the credential of the request POST has answered for send i is missing or bad
BadCredential(i) ==
    \/ ~apiKeyConfigured
    \/ post[i].thrown = ErrorOf(ErrApiKey)

\* C15: when GEMINI_API_KEY is not configured, or the provider rejects the
\* key, the response the page receives has status 401 and the turn the page
\* appends for it is the API-key notice.
C15_BadCredentialIsUnauthorized ==
    [][\A i \in Sends :
          (/\ call[i].pc = "fetch"
           /\ post[i].pc = "done"
           /\ BadCredential(i)
           /\ call'[i].pc = "done"
           /\ call'[i].response = post[i].response)
          => /\ post[i].response.status = 401
             /\ messages'[Len(messages')].content = ApiKeyNotice]_vars

NoReplyText == GenericPrefix \o "No reply received from API"

\* C16: no assistant turn of the log has the empty text, and a send whose
\* response came back with status 200 and an empty reply has appended one
\* assistant turn, which reports the missing reply as an error.
C16_EmptyReplyIsFailure ==
    /\ \A k \in 1..Len(messages) :
           messages[k].role = "assistant" => messages[k].content # ""
    /\ \A i \in Sends :
           (/\ call[i].pc = "done"
            /\ call[i].response.status = 200
            /\ call[i].response.body.reply = "")
           => TurnsBy(i, "assistant")
                 = <<[role |-> "assistant", content |-> NoReplyText, by |-> i]>>

\* the second send got an empty reply after the first got a real one
C16_Witness ==
    /\ call[1].pc = "done"
    /\ call[1].response.status = 200
    /\ call[1].response.body.reply = "Your balance is $500."
    /\ call[2].pc = "done"
    /\ call[2].response.status = 200
    /\ call[2].response.body.reply = ""
    /\ messages[Len(messages)].content = NoReplyText

\* no send is in flight and the page is not loading
Quiet == ~isLoading /\ \A i \in Sends : call[i].pc # "fetch"

\* C17: the page is quiet again and again: every send that is in flight is
\* eventually finished, whether its dispatch returned or failed, with
\* isLoading false; and whenever a send has finished the page accepts the
\* next one.
C17_UsableAfterFailure ==
    /\ []<>Quiet
    /\ [](\A i \in Sends :
             (i < MaxSends /\ call[i].pc = "done" /\ call[i + 1].pc = "idle")
             => ENABLED SendMessage(i + 1, "What's my balance?", <<>>))

\* the first send failed with 429 and the second one got its reply
C17_Witness ==
    /\ call[1].pc = "done"
    /\ call[1].response.status = 429
    /\ call[2].pc = "done"
    /\ call[2].response.status = 200
    /\ messages[Len(messages)].content = "Your balance is $500."
    /\ ~isLoading

(***************************************************************************)
(* Properties of the dispatcher under interleaving                         *)
(***************************************************************************)
\* the failures of a dispatch that carry the 429 mark
OwnRateLimitFailures(p) ==
    {n \in 1..Len(p.outcomes) : Failed(p.outcomes[n]) /\ Includes(p.outcomes[n].text, "429")}

\* the delays that follow from the dispatch's own failures alone
OwnDelays(p) ==
    [k \in 1..Cardinality(OwnRateLimitFailures(p)) |-> p.baseDelay * (2 ^ (k - 1))]

\* C19: however the dispatches interleave, the delays of each are the ones
\* that follow from its own rate-limit failures, its attempt index counts
\* its own attempts, and a step of one dispatch leaves every other
\* dispatch as it was.
C19_NoSharedBackoff ==
    /\ [](\A i \in Sends :
             /\ post[i].sleeps = OwnDelays(post[i])
             /\ post[i].pc = "call" => post[i].attempt = Len(post[i].outcomes)
             /\ post[i].pc = "sleep" => post[i].attempt = Len(post[i].outcomes) - 1)
    /\ [][\A i \in Sends, j \in Sends :
             (i # j /\ post[i].pc \in {"call", "sleep"} /\ post'[i] # post[i])
             => post'[j] = post[j]]_vars

\* the first dispatch has used both of its attempts, the second its first
C19_Witness ==
    /\ post[1].pc = "thrown"
    /\ post[1].sleeps = <<2000, 4000>>
    /\ post[2].pc = "sleep"
    /\ post[2].attempt = 0
    /\ post[2].sleeps = <<2000>>

\* C20: the dispatcher sleeps only between two attempts: a dispatch that is
\* over, returned or failed, has slept once less than it has called fn, so
\* no delay was slept after its last attempt.
C20_SleepOnlyBeforeRetry ==
    \A i \in Sends :
        (post[i].pc \in {"returned", "thrown"} /\ Len(post[i].outcomes) > 0)
        => Len(post[i].sleeps) = Len(post[i].outcomes) - 1

(***************************************************************************)
(* Properties of the dispatcher at its limits                              *)
(***************************************************************************)
\* C21: whatever maxRetries is, a dispatch that is over has called fn at
\* least once, and when it has failed the value it throws is the error of
\* one of its attempts, never null.
C21_AtLeastOneAttempt ==
    \A i \in Sends :
        post[i].pc \in {"returned", "thrown"}
        => /\ Len(post[i].outcomes) >= 1
           /\ post[i].pc = "thrown"
              => /\ post[i].thrown # NullError
                 /\ \E k \in 1..Len(post[i].outcomes) :
                        /\ Failed(post[i].outcomes[k])
                        /\ post[i].thrown = ErrorOf(post[i].outcomes[k].text)

(***************************************************************************)
(* Properties of concurrent captures                                       *)
(***************************************************************************)
\* C22: the step that completes a batch preserves what happened to the list
\* while the batch was reading: every document the list holds at that
\* moment (those of a batch that completed meanwhile included) is still in
\* it afterwards, and a document that was removed meanwhile does not come
\* back.
C22_CompletionPreservesChanges ==
    [][\A b \in Batches :
          (batch[b].pc = "reading" /\ batch'[b].pc = "done")
          => /\ DocIds(uploaded) \subseteq DocIds(uploaded')
             /\ (DocIds(batch[b].closure) \ DocIds(uploaded)) \cap DocIds(uploaded') = {}]_vars

(***************************************************************************)
(* Properties of the log and of the history under sequential sends         *)
(***************************************************************************)
\* the sends with a non-blank text that are over, and the sends in flight
CompletedSends == {i \in Sends : call[i].pc = "done" /\ NonBlank(call[i].content)}
InFlightSends == {i \in Sends : call[i].pc = "fetch"}

\* a history in which user and model alternate, from a user to a model turn
Alternates(history) ==
    /\ Len(history) % 2 = 0
    /\ \A k \in 1..Len(history) :
           history[k].role = (IF k % 2 = 1 THEN "user" ELSE "model")

\* C23: with sends issued one at a time, the log after k completed
\* non-blank sends has 1 + 2k turns (one more while a send is in flight),
\* which alternate assistant, user, assistant, ...; and every history that
\* POST projects alternates user/model, from a user turn to a model turn.
C23_SequentialAlternation ==
    /\ Cardinality(InFlightSends) <= 1
    /\ Len(messages) = 1 + 2 * Cardinality(CompletedSends) + Cardinality(InFlightSends)
    /\ \A n \in 1..Len(messages) :
           messages[n].role = (IF n % 2 = 1 THEN "assistant" ELSE "user")
    /\ \A i \in Sends : post[i].assembled => Alternates(post[i].conversationHistory)

\* the second send is at the server after the first one failed: its history
\* is the user turn and the error turn of the first
C23_Witness ==
    /\ call[1].pc = "done"
    /\ call[1].response.status = 429
    /\ call[2].pc = "fetch"
    /\ post[2].assembled
    /\ Len(post[2].conversationHistory) = 2
    /\ Len(messages) = 4

(***************************************************************************)
(* Properties of overlapping sends                                         *)
(***************************************************************************)
\* C24: isLoading is true in every state in which a send is in flight, its
\* user turn appended and its assistant turn not yet, also when two calls
\* of handleSendMessage overlap.
C24_LoadingWhileInFlight == InFlightSends # {} => isLoading

(***************************************************************************)
(* Properties of the history of a send                                     *)
(***************************************************************************)
\* the position in the log of the user turn that send i appended
OwnTurnAt(i) ==
    CHOOSE p \in 1..Len(messages) : messages[p].by = i /\ messages[p].role = "user"

\* the turns of the log before position p, as the request carries them
LogBefore(p) ==
    [k \in 1..(p - 1) |-> [role |-> messages[k].role, content |-> messages[k].content]]

\* C25: the log a send puts in its request is the log before its own user
\* turn, so the history POST projects from it is made of the turns between
\* the welcome turn and the own turn and does not contain the own turn; the
\* user's text travels as userMessage.
C25_HistoryWithoutOwnTurn ==
    \A i \in Sends :
        /\ request[i] # NoRequest
           => /\ request[i].messages = LogBefore(OwnTurnAt(i))
              /\ request[i].userMessage = call[i].content
        /\ post[i].assembled
           => /\ post[i].body.messages = LogBefore(OwnTurnAt(i))
              /\ Len(post[i].conversationHistory) = OwnTurnAt(i) - 2
              /\ \A k \in 1..Len(post[i].conversationHistory) :
                     post[i].conversationHistory[k].parts = <<[text |-> messages[k + 1].content]>>
              /\ post[i].body.userMessage = call[i].content

\* the second send, started while the first is in flight, is at the server:
\* its history is the user turn of the first send and nothing else
C25_Witness ==
    /\ call[1].pc = "fetch"
    /\ call[2].pc = "fetch"
    /\ post[2].assembled
    /\ OwnTurnAt(2) = 3
    /\ Len(post[2].conversationHistory) = 1
    /\ post[2].conversationHistory[1].role = "user"
    /\ Len(call[2].documents) = 2

====
